---------------------------- MODULE Spec2Model ----------------------------
(***************************************************************************)
(* A model of review.py, the AI review action.                             *)
(*                                                                         *)
(* Texts are sequences of symbols.  A symbol is one character, or one of   *)
(* the fixed literals the code searches for (the marker, the header), or   *)
(* the serialisation of one JSON object (a document identifier).           *)
(*                                                                         *)
(* Four specifications:                                                    *)
(*   Spec       one run of the script: process_review, then                *)
(*              publish_annotations block by block;                        *)
(*   SpecRerun  the same, from any pull request of up to MaxComments       *)
(*              comments, the publisher then run again with the same text; *)
(*   SpecDiff   help_llm applied to a bounded set of patches;              *)
(*   SpecModel  get_model applied to a bounded set of model names.         *)
(***************************************************************************)
EXTENDS Integers, Sequences, FiniteSets, TLC

VARIABLES
    pc,                     \* position of the script
    error,                  \* the exception that ended the run, or "none"
    llm_model,              \* args.llm_model
    debug,                  \* args.debug.lower() == 'true'
    add_review_resolution,  \* args.add_review_resolution.lower() == 'true'
    requests_posted,        \* number of requests.post calls made
    response_status,        \* status of the endpoint's answer, "none" before it
    summary_content,        \* the text process_review returned
    human_summary,          \* local of publish_annotations
    technical_info_str,     \* local of publish_annotations
    comments,               \* the issue comments of the pull request
    initial_comments,       \* the comments the pull request held before the run
    next_id,                \* identifier the service gives the next comment
    log,                    \* side effects of the current publisher run, in order
    history,                \* the logs of the earlier publisher runs
    diff_file,              \* argument of help_llm
    diff_output,            \* result of help_llm
    pattern,                \* argument of get_model
    model_result            \* result of get_model

vars == <<pc, error, llm_model, debug, add_review_resolution, requests_posted,
          response_status,
          summary_content, human_summary, technical_info_str, comments,
          initial_comments, next_id, log, history, diff_file, diff_output,
          pattern, model_result>>

-----------------------------------------------------------------------------
(* Bounds of the model *)

MaxText == 3
MaxShortText == 1
MaxComments == 2
MaxRuns == 2
MaxLines == 4
MaxSuffix == 2

-----------------------------------------------------------------------------
(* Constants of the program *)

GITHUB_ACTIONS_BOT == "github-actions[bot]"
HEADER == "# AI Review"
marker == "### TECHNICAL INFORMATION"

\* Python's None, where a text is expected
None == <<"None">>

\* truthiness of an Optional[str]
Truthy(s) == s # None /\ s # <<>>

SeqsUpTo(S, n) == UNION {[1..k -> S] : k \in 0..n}

-----------------------------------------------------------------------------
(* The model table and get_model *)

supported_models ==
    << <<"^", "g", "p", "t", "-", "4">>,
       <<"^", "o", "1">>,
       <<"^", "c", "l", "a", "u", "d", "e", "-", "3">>,
       <<"^", "g", "e", "m", "i", "n", "i", "-", "2">> >>

\* re.match(m, s) for the patterns of the table: an anchor, then literal
\* characters, matched at the start of s
re_match(m, s) ==
    LET lit == IF Len(m) > 0 /\ m[1] = "^" THEN SubSeq(m, 2, Len(m)) ELSE m
    IN  /\ Len(s) >= Len(lit)
        /\ \A i \in 1..Len(lit) : s[i] = lit[i]

\* a mutant of get_model: the table of an earlier release, without its last
\* pattern, is the one listed in the error
get_model_stale_list(name) ==
    LET hits == {i \in 1..Len(supported_models) : re_match(supported_models[i], name)}
    IN  IF hits # {}
        THEN [raised |-> FALSE,
              value |-> supported_models[CHOOSE i \in hits : \A j \in hits : i <= j],
              supported |-> <<>>]
        ELSE [raised |-> TRUE, value |-> name,
              supported |-> SubSeq(supported_models, 1, Len(supported_models) - 1)]

\* get_model: the first pattern, in definition order, that matches; else a
\* ValueError naming the argument and list(supported_models.keys())
get_model(name) ==
    LET hits == {i \in 1..Len(supported_models) : re_match(supported_models[i], name)}
    IN  IF hits # {}
        THEN [raised |-> FALSE,
              value |-> supported_models[CHOOSE i \in hits : \A j \in hits : i <= j],
              supported |-> <<>>]
        ELSE [raised |-> TRUE, value |-> name, supported |-> supported_models]

-----------------------------------------------------------------------------
(* Texts of the LLM and the JSON objects they may carry *)

NoReview == [kind |-> "absent", resolution |-> "None", review_message |-> "absent"]

\* The JSON objects a response may carry, by identifier.  A missing key is
\* "absent"; .get of a missing key gives "None" unless a default is given.
Doc(d) ==
    CASE d = "D1" -> [annotations |-> <<[file |-> "a.py", line |-> "5", message |-> "x"]>>,
                      review |-> NoReview]
      [] d = "D2" -> [annotations |-> <<>>,
                      review |-> [kind |-> "object", resolution |-> "APPROVE",
                                  review_message |-> "LGTM"]]
      [] d = "D3" -> [annotations |-> <<[file |-> "a.py", line |-> "5", message |-> "x"]>>,
                      review |-> [kind |-> "object", resolution |-> "MAYBE",
                                  review_message |-> "LGTM"]]
      [] d = "D4" -> [annotations |-> <<>>,
                      review |-> [kind |-> "object", resolution |-> "None",
                                  review_message |-> "LGTM"]]
      [] d = "D5" -> [annotations |-> <<[file |-> "a.py", line |-> "5", message |-> "x"],
                                        [file |-> "b.py", line |-> "None", message |-> "y"]>>,
                      review |-> [kind |-> "object", resolution |-> "COMMENT",
                                  review_message |-> "absent"]]
      [] d = "D6" -> [annotations |-> <<>>,
                      review |-> [kind |-> "object", resolution |-> "REQUEST_CHANGES",
                                  review_message |-> "LGTM"]]
      [] OTHER    -> [annotations |-> <<>>, review |-> NoReview]

DocIds == {"D1", "D2", "D3", "D4", "D5", "D6"}

\* the empty JSON object {}
EmptyDoc == [annotations |-> <<>>, review |-> NoReview]

TextSymbols == {" ", "x", marker, "{", "}"} \cup DocIds

Texts == SeqsUpTo(TextSymbols, MaxText)

ShortTexts == SeqsUpTo(TextSymbols, MaxShortText)

IsSpace(c) == c \in {" ", "\n"}

\* str.strip()
strip(s) ==
    LET keep == {i \in 1..Len(s) : ~IsSpace(s[i])}
    IN  IF keep = {} THEN <<>>
        ELSE SubSeq(s, CHOOSE i \in keep : \A j \in keep : i <= j,
                       CHOOSE i \in keep : \A j \in keep : i >= j)

\* marker in s
Contains(s, c) == \E i \in 1..Len(s) : s[i] = c

\* s.split(marker, 1): the text before and after the first occurrence
split_once(s, c) ==
    LET i == CHOOSE k \in 1..Len(s) : s[k] = c /\ \A j \in 1..(k - 1) : s[j] # c
    IN  <<SubSeq(s, 1, i - 1), SubSeq(s, i + 1, Len(s))>>

HasOpen(c) == c = "{" \/ c \in DocIds
HasClose(c) == c = "}" \/ c \in DocIds

\* the span re.search(r'\{.*\}', text, re.S) finds: from the first opening
\* brace to the last closing brace after it; <<0, 0>> when there is none
brace_span(text) ==
    LET opens == {i \in 1..Len(text) : HasOpen(text[i])}
        first == CHOOSE i \in opens : \A j \in opens : i <= j
        closes == {j \in 1..Len(text) :
                     /\ HasClose(text[j])
                     /\ \/ j > first
                        \/ j = first /\ text[j] \in DocIds}
    IN  IF opens = {} THEN <<0, 0>>
        ELSE IF closes = {} THEN <<0, 0>>
        ELSE <<first, CHOOSE j \in closes : \A k \in closes : j >= k>>

\* extract_json: [raised |-> TRUE] is the AttributeError of None.group(0)
extract_json(text) ==
    IF ~Truthy(text) THEN [raised |-> FALSE, value |-> text]
    ELSE LET sp == brace_span(text)
         IN  IF sp = <<0, 0>> THEN [raised |-> TRUE, value |-> None]
             ELSE [raised |-> FALSE, value |-> SubSeq(text, sp[1], sp[2])]

\* json.loads of a brace span: one serialised object, or a pair of braces
\* around whitespace, parses; anything else is a JSONDecodeError
json_loads(span) ==
    IF Len(span) = 1 /\ span[1] \in DocIds
    THEN [raised |-> FALSE, value |-> Doc(span[1])]
    ELSE IF /\ Len(span) >= 2
            /\ span[1] = "{"
            /\ span[Len(span)] = "}"
            /\ \A i \in 2..(Len(span) - 1) : IsSpace(span[i])
    THEN [raised |-> FALSE, value |-> EmptyDoc]
    ELSE [raised |-> TRUE, value |-> EmptyDoc]

-----------------------------------------------------------------------------
(* The pull request service *)

OTHER_USER == "octocat"

OldSummary == <<HEADER, " ", "\n", "\n", "x">>

CommentKinds ==
    {[login |-> l, body |-> b] : l \in {GITHUB_ACTIONS_BOT, OTHER_USER},
                                 b \in {OldSummary, <<"x">>}}

\* the comments a pull request may hold, numbered in creation order
CommentLists(n) ==
    {[i \in 1..Len(ks) |-> [id |-> i, login |-> ks[i].login, body |-> ks[i].body]] :
       ks \in SeqsUpTo(CommentKinds, n)}

\* the pull requests the single-run specification starts from
FewCommentLists ==
    {cs \in CommentLists(2) :
       \/ cs = <<>>
       \/ Len(cs) = 1 /\ cs[1].login = GITHUB_ACTIONS_BOT /\ cs[1].body = OldSummary
       \/ /\ Len(cs) = 2
          /\ cs[1].login = GITHUB_ACTIONS_BOT /\ cs[1].body = OldSummary
          /\ cs[2].login = OTHER_USER /\ cs[2].body = OldSummary}

\* a mutant of should_delete: the author is not looked at
should_delete_any_author(comment) ==
    Contains(comment.body, HEADER)

\* HEADER in comment.body and comment.user.login == GITHUB_ACTIONS_BOT
should_delete(comment) ==
    Contains(comment.body, HEADER) /\ comment.login = GITHUB_ACTIONS_BOT

\* a mutant of delete_previous: only the first matching comment is deleted
delete_first_only(cs) ==
    LET hit == {i \in 1..Len(cs) : should_delete(cs[i])}
        first == CHOOSE i \in hit : \A j \in hit : i <= j
    IN  IF hit = {} THEN {} ELSE {first}

\* the deletion loop: the positions of the comments it deletes
delete_previous(cs) == {i \in 1..Len(cs) : should_delete(cs[i])}

RECURSIVE deletion_log(_, _, _)
\* what the deletion loop does, comment by comment: print the login, then
\* delete the comment if it is chosen
deletion_log(cs, chosen, i) ==
    IF i > Len(cs) THEN <<>>
    ELSE <<[kind |-> "message", data |-> <<cs[i].login>>]>>
         \o (IF i \in chosen
             THEN <<[kind |-> "delete", data |-> <<cs[i].id>>]>>
             ELSE <<>>)
         \o deletion_log(cs, chosen, i + 1)

RECURSIVE keep_others(_, _, _)
keep_others(cs, chosen, i) ==
    IF i > Len(cs) THEN <<>>
    ELSE (IF i \in chosen THEN <<>> ELSE <<cs[i]>>) \o keep_others(cs, chosen, i + 1)

\* the body of the comment publish_annotations posts
comment_body(summary, dbg, model) ==
    <<HEADER, " ", "\n", "\n">> \o summary
    \o (IF dbg THEN <<"\n", "\n", "*Model version: ">> \o model \o <<"*">> ELSE <<>>)

\* a mutant of valid_resolution: the value is not validated
valid_resolution_any(resolution) == TRUE

\* resolution in ["APPROVE", "REQUEST_CHANGES", "COMMENT"]
valid_resolution(resolution) == resolution \in {"APPROVE", "REQUEST_CHANGES", "COMMENT"}

\* the line printed for one annotation
annotation_line(a) ==
    <<"::warning file=", a.file, ",line=", a.line, "::", a.message>>

annotation_log(as) ==
    [i \in 1..Len(as) |-> [kind |-> "annotation", data |-> annotation_line(as[i])]]

\* a mutant of StepAfter: the review is submitted before the comment is posted
StepAfterReviewFirst(p) ==
    CASE p = "split" -> "annotations"
      [] p = "annotations" -> "delete"
      [] p = "delete" -> "review"
      [] p = "review" -> "comment"
      [] p = "comment" -> "done"
      [] OTHER -> "done"

\* the order of the blocks of publish_annotations
StepAfter(p) ==
    CASE p = "split" -> "annotations"
      [] p = "annotations" -> "delete"
      [] p = "delete" -> "comment"
      [] p = "comment" -> "review"
      [] p = "review" -> "done"
      [] OTHER -> "done"

-----------------------------------------------------------------------------
(* The run of the script *)

MainModels == {<<"g", "p", "t", "-", "4", "o">>, <<"l", "l", "a", "m", "a">>}

PublisherIdle ==
    /\ human_summary = <<>>
    /\ technical_info_str = None
    /\ log = <<>>
    /\ history = <<>>

DiffIdle == diff_file = [filename |-> <<>>, patch |-> <<>>] /\ diff_output = <<>>

ModelIdle == pattern = <<>> /\ model_result = [raised |-> FALSE, value |-> <<>>, supported |-> <<>>]

InitWith(lists) ==
    /\ pc = "main"
    /\ error = "none"
    /\ llm_model \in MainModels
    /\ debug \in BOOLEAN
    /\ add_review_resolution \in BOOLEAN
    /\ requests_posted = 0
    /\ response_status = "none"
    /\ summary_content = <<>>
    /\ comments \in lists
    /\ initial_comments = comments
    /\ next_id = Len(comments) + 1
    /\ PublisherIdle
    /\ DiffIdle
    /\ ModelIdle

Init == InitWith(FewCommentLists)

InitRerun == InitWith(CommentLists(MaxComments))

Unused == <<diff_file, diff_output, pattern, model_result>>

Answered == <<requests_posted, response_status>>

\* a mutant of raise_for_status: the status is not looked at
raise_for_status_never(status) == FALSE

\* response.raise_for_status(): TRUE when it raises
raise_for_status(status) == status # "ok"

\* process_review, the model name not supported: get_model raises before
\* any request is made
ProcessReviewUnsupported ==
    /\ pc = "main"
    /\ get_model(llm_model).raised
    /\ pc' = "fatal"
    /\ error' = "ValueError"
    /\ UNCHANGED <<llm_model, debug, add_review_resolution, Answered,
                   summary_content, human_summary, technical_info_str, comments,
                   initial_comments, next_id, log, history, Unused>>

\* process_review, the endpoint answering with an error status
ProcessReviewHttpError ==
    /\ pc = "main"
    /\ ~get_model(llm_model).raised
    /\ requests_posted' = requests_posted + 1
    /\ response_status' = "error"
    /\ IF raise_for_status("error")
       THEN /\ pc' = "fatal"
            /\ error' = "HTTPError"
            /\ UNCHANGED summary_content
       ELSE /\ pc' = "split"
            /\ UNCHANGED error
            /\ summary_content' = <<"x">>
    /\ UNCHANGED <<llm_model, debug, add_review_resolution,
                   human_summary, technical_info_str, comments,
                   initial_comments, next_id, log, history, Unused>>

\* process_review, the endpoint answering with a text of texts; main then
\* calls publish_annotations
ReviewReturned(texts) ==
    /\ pc = "main"
    /\ ~get_model(llm_model).raised
    /\ requests_posted' = requests_posted + 1
    /\ response_status' = "ok"
    /\ ~raise_for_status("ok")
    /\ \E t \in texts : summary_content' = t
    /\ pc' = "split"
    /\ UNCHANGED <<error, llm_model, debug, add_review_resolution,
                   human_summary, technical_info_str, comments,
                   initial_comments, next_id, log, history, Unused>>

ProcessReviewOk == ReviewReturned(Texts)

ProcessReviewOkShort == ReviewReturned(ShortTexts)

\* publish_annotations, lines 184-197: the split at the marker and extract_json
Split ==
    /\ pc = "split"
    /\ LET has == Contains(summary_content, marker)
           parts == split_once(summary_content, marker)
           hs == IF has THEN strip(parts[1]) ELSE summary_content
           ts == IF has THEN strip(parts[2]) ELSE None
           ej == extract_json(ts)
           printed == IF debug THEN <<[kind |-> "message", data |-> summary_content]>>
                      ELSE <<>>
       IN  /\ human_summary' = hs
           /\ log' = log \o printed
           /\ IF ej.raised
              THEN /\ pc' = "fatal"
                   /\ error' = "AttributeError"
                   /\ technical_info_str' = ts
              ELSE /\ pc' = StepAfter("split")
                   /\ UNCHANGED error
                   /\ technical_info_str' = ej.value
    /\ UNCHANGED <<llm_model, debug, add_review_resolution, Answered,
                   summary_content, comments, initial_comments, next_id,
                   history, Unused>>

\* publish_annotations, lines 198-209: the annotations
Annotations ==
    /\ pc = "annotations"
    /\ LET parsed == json_loads(technical_info_str)
       IN  log' = log \o
                  (IF ~Truthy(technical_info_str) THEN <<>>
                   ELSE IF parsed.raised
                   THEN <<[kind |-> "message",
                           data |-> <<"Error parsing technical information JSON (annotations):">>]>>
                   ELSE annotation_log(parsed.value.annotations))
    /\ pc' = StepAfter("annotations")
    /\ UNCHANGED <<error, llm_model, debug, add_review_resolution, Answered,
                   summary_content, human_summary, technical_info_str, comments,
                   initial_comments, next_id, history, Unused>>

\* publish_annotations, lines 217-221: the earlier summaries are deleted
DeletePrevious ==
    /\ pc = "delete"
    /\ LET chosen == delete_previous(comments)
       IN  /\ comments' = keep_others(comments, chosen, 1)
           /\ log' = log \o deletion_log(comments, chosen, 1)
    /\ pc' = StepAfter("delete")
    /\ UNCHANGED <<error, llm_model, debug, add_review_resolution, Answered,
                   summary_content, human_summary, technical_info_str,
                   initial_comments, next_id, history, Unused>>

\* publish_annotations, lines 223-228: the summary is posted.  The action
\* runs with the token of the workflow, whose comments are authored by
\* GITHUB_ACTIONS_BOT.
CreateComment ==
    /\ pc = "comment"
    /\ IF human_summary # <<>>
       THEN LET body == comment_body(human_summary, debug, llm_model)
            IN  /\ comments' = Append(comments, [id |-> next_id,
                                                 login |-> GITHUB_ACTIONS_BOT,
                                                 body |-> body])
                /\ next_id' = next_id + 1
                /\ log' = Append(log, [kind |-> "create_comment",
                                        data |-> [id |-> next_id, body |-> body]])
       ELSE UNCHANGED <<comments, next_id, log>>
    /\ pc' = StepAfter("comment")
    /\ UNCHANGED <<error, llm_model, debug, add_review_resolution, Answered,
                   summary_content, human_summary, technical_info_str,
                   initial_comments, history, Unused>>

\* review_message = review_data.get("review_message", "")
review_message_of(review) ==
    IF review.review_message = "absent" THEN "" ELSE review.review_message

\* technical_info_str and add_review_resolution
review_asked(tech, opt_in) == Truthy(tech) /\ opt_in

\* publish_annotations, lines 230-244: the review
SubmitReview ==
    /\ pc = "review"
    /\ LET parsed == json_loads(technical_info_str)
           review == parsed.value.review
       IN  log' = log \o
                  (IF ~review_asked(technical_info_str, add_review_resolution) THEN <<>>
                   ELSE IF parsed.raised
                   THEN <<[kind |-> "message",
                           data |-> <<"Error parsing technical information JSON (review):">>]>>
                   ELSE IF review.kind # "object" THEN <<>>
                   ELSE IF ~valid_resolution(review.resolution)
                   THEN <<[kind |-> "message",
                           data |-> <<"Unknown resolution", review.resolution>>]>>
                   ELSE <<[kind |-> "create_review",
                           data |-> <<review_message_of(review), review.resolution>>]>>)
    /\ pc' = StepAfter("review")
    /\ UNCHANGED <<error, llm_model, debug, add_review_resolution, Answered,
                   summary_content, human_summary, technical_info_str, comments,
                   initial_comments, next_id, history, Unused>>

\* the publisher is run again on the same pull request with the same text
RunAgain ==
    /\ pc = "done"
    /\ Len(history) + 1 < MaxRuns
    /\ history' = Append(history, log)
    /\ log' = <<>>
    /\ human_summary' = <<>>
    /\ technical_info_str' = None
    /\ initial_comments' = comments
    /\ pc' = "split"
    /\ UNCHANGED <<error, llm_model, debug, add_review_resolution, Answered,
                   summary_content, comments, next_id, Unused>>

Next ==
    \/ ProcessReviewUnsupported
    \/ ProcessReviewHttpError
    \/ ProcessReviewOk
    \/ Split
    \/ Annotations
    \/ DeletePrevious
    \/ CreateComment
    \/ SubmitReview

Spec == Init /\ [][Next]_vars

NextRerun ==
    \/ ProcessReviewUnsupported
    \/ ProcessReviewHttpError
    \/ ProcessReviewOkShort
    \/ Split
    \/ Annotations
    \/ DeletePrevious
    \/ CreateComment
    \/ SubmitReview
    \/ RunAgain

SpecRerun == InitRerun /\ [][NextRerun]_vars

-----------------------------------------------------------------------------
(* help_llm *)

\* current_line_number = None
NoLine == -1

\* the line of three backquotes that opens and closes the code block
FENCE == "[fence]"

Digits == <<"0", "1", "2", "3", "4", "5", "6", "7", "8", "9">>

IsDigit(c) == \E d \in 1..10 : Digits[d] = c

DigitValue(c) == (CHOOSE d \in 1..10 : Digits[d] = c) - 1

RECURSIVE int_of(_)
\* int(match.group(1))
int_of(ds) ==
    IF ds = <<>> THEN 0
    ELSE 10 * int_of(SubSeq(ds, 1, Len(ds) - 1)) + DigitValue(ds[Len(ds)])

RECURSIVE decimal(_)
\* the decimal digits of n >= 0
decimal(n) ==
    IF n < 10 THEN <<Digits[n + 1]>>
    ELSE decimal(n \div 10) \o <<Digits[(n % 10) + 1]>>

\* f"{n:4d}": right-aligned in a field of at least 4 characters
format_4d(n) ==
    LET ds == decimal(n)
    IN  [i \in 1..(IF Len(ds) < 4 THEN 4 - Len(ds) ELSE 0) |-> " "] \o ds

RECURSIVE splitlines(_, _)
\* str.splitlines(): cur is the line being read
splitlines(s, cur) ==
    IF s = <<>> THEN (IF cur = <<>> THEN <<>> ELSE <<cur>>)
    ELSE IF Head(s) = "\n" THEN <<cur>> \o splitlines(SubSeq(s, 2, Len(s)), <<>>)
    ELSE splitlines(SubSeq(s, 2, Len(s)), Append(cur, Head(s)))

RECURSIVE join(_, _)
\* sep.join(lines)
join(lines, sep) ==
    IF lines = <<>> THEN <<>>
    ELSE IF Len(lines) = 1 THEN lines[1]
    ELSE lines[1] \o <<sep>> \o join(SubSeq(lines, 2, Len(lines)), sep)

\* the position after lit matched at position p of s; 0 when it does not
\* match or p is 0
expect(s, p, lit) ==
    IF /\ p > 0
       /\ p + Len(lit) - 1 <= Len(s)
       /\ \A i \in 1..Len(lit) : s[p + i - 1] = lit[i]
    THEN p + Len(lit) ELSE 0

\* the position after \d+ matched at position p of s; 0 when it does not match
expect_digits(s, p) ==
    IF p > 0 /\ p <= Len(s) /\ IsDigit(s[p])
    THEN CHOOSE q \in (p + 1)..(Len(s) + 1) :
            /\ \A i \in p..(q - 1) : IsDigit(s[i])
            /\ q = Len(s) + 1 \/ ~IsDigit(s[q])
    ELSE 0

\* the position after (?:,\d+)? matched at position p of s
optional_count(s, p) ==
    IF expect_digits(s, expect(s, p, <<",">>)) > 0
    THEN expect_digits(s, expect(s, p, <<",">>))
    ELSE p

\* hunk_header_re.match(line): group(1), or <<>> when the line does not match
\* ^@@ -\d+(?:,\d+)? \+(\d+)(?:,(\d+))? @@
hunk_header_match(line) ==
    LET p1 == expect(line, 1, <<"@", "@", " ", "-">>)
        p2 == expect_digits(line, p1)
        p3 == IF p2 > 0 THEN optional_count(line, p2) ELSE 0
        p4 == expect(line, p3, <<" ", "+">>)
        p5 == expect_digits(line, p4)
        p6 == IF p5 > 0 THEN optional_count(line, p5) ELSE 0
        p7 == expect(line, p6, <<" ", "@", "@">>)
    IN  IF p7 > 0 THEN SubSeq(line, p4, p5 - 1) ELSE <<>>

startswith(line, c) == Len(line) > 0 /\ line[1] = c

\* a mutant of help_llm_line: a deletion line advances the counter
help_llm_line_counting_deletions(st, line) ==
    LET m == hunk_header_match(line)
        n == st.current_line_number
    IN  IF m # <<>>
        THEN [current_line_number |-> int_of(m),
              output_lines |-> Append(st.output_lines, line)]
        ELSE IF startswith(line, " ") \/ startswith(line, "+")
        THEN IF n # NoLine
             THEN [current_line_number |-> n + 1,
                   output_lines |-> Append(st.output_lines,
                                           format_4d(n) \o <<":", " ">> \o line)]
             ELSE [current_line_number |-> n,
                   output_lines |-> Append(st.output_lines,
                                           <<" ", " ", " ", "?", " ", ":", " ">> \o line)]
        ELSE IF startswith(line, "-")
        THEN [current_line_number |-> IF n # NoLine THEN n + 1 ELSE n,
              output_lines |-> Append(st.output_lines,
                                      <<" ", " ", " ", " ", " ", " ">> \o line)]
        ELSE [current_line_number |-> n,
              output_lines |-> Append(st.output_lines, line)]

\* a mutant of help_llm_line: without a hunk header the counter starts at 0
help_llm_line_from_zero(st, line) ==
    LET m == hunk_header_match(line)
        n == IF st.current_line_number = NoLine THEN 0 ELSE st.current_line_number
    IN  IF m # <<>>
        THEN [current_line_number |-> int_of(m),
              output_lines |-> Append(st.output_lines, line)]
        ELSE IF startswith(line, " ") \/ startswith(line, "+")
        THEN [current_line_number |-> n + 1,
              output_lines |-> Append(st.output_lines,
                                      format_4d(n) \o <<":", " ">> \o line)]
        ELSE IF startswith(line, "-")
        THEN [current_line_number |-> n,
              output_lines |-> Append(st.output_lines,
                                      <<" ", " ", " ", " ", " ", " ">> \o line)]
        ELSE [current_line_number |-> n,
              output_lines |-> Append(st.output_lines, line)]

\* the body of the loop of help_llm, for one line
help_llm_line(st, line) ==
    LET m == hunk_header_match(line)
        n == st.current_line_number
    IN  IF m # <<>>
        THEN [current_line_number |-> int_of(m),
              output_lines |-> Append(st.output_lines, line)]
        ELSE IF startswith(line, " ") \/ startswith(line, "+")
        THEN IF n # NoLine
             THEN [current_line_number |-> n + 1,
                   output_lines |-> Append(st.output_lines,
                                           format_4d(n) \o <<":", " ">> \o line)]
             ELSE [current_line_number |-> n,
                   output_lines |-> Append(st.output_lines,
                                           <<" ", " ", " ", "?", " ", ":", " ">> \o line)]
        ELSE IF startswith(line, "-")
        THEN [current_line_number |-> n,
              output_lines |-> Append(st.output_lines,
                                      <<" ", " ", " ", " ", " ", " ">> \o line)]
        ELSE [current_line_number |-> n,
              output_lines |-> Append(st.output_lines, line)]

RECURSIVE help_llm_loop(_, _)
help_llm_loop(st, lines) ==
    IF lines = <<>> THEN st
    ELSE help_llm_loop(help_llm_line(st, Head(lines)), SubSeq(lines, 2, Len(lines)))

\* help_llm(diff_file)
help_llm(f) ==
    LET lines == splitlines(f.patch, <<>>)
        start == [current_line_number |-> NoLine,
                  output_lines |-> << <<"\n", "Filename: ">> \o f.filename,
                                      <<"Patch:">>,
                                      <<FENCE>> >>]
        end == help_llm_loop(start, lines)
    IN  join(Append(end.output_lines, <<FENCE>>), "\n")

\* a hunk header line: @@ -old[,oldn] +start[,n] @@rest
HunkHeader(old, oldn, start, n, rest) ==
    <<"@", "@", " ", "-">> \o old \o oldn \o <<" ", "+">> \o start \o n
    \o <<" ", "@", "@">> \o rest

\* the hunk headers of the patches, with the new-file start each one gives
Headers ==
    {[line |-> HunkHeader(<<"1", "0">>, <<",", "3">>, <<"2", "0">>, <<",", "3">>, <<>>),
      start |-> 20],
     [line |-> HunkHeader(<<"1">>, <<>>, <<"3">>, <<>>, <<" ", "x">>),
      start |-> 3],
     [line |-> HunkHeader(<<"7">>, <<",", "2">>, <<"9", "9", "9", "8">>, <<",", "4">>, <<>>),
      start |-> 9998]}

\* the lines of the patches: the hunk headers, a line that only resembles
\* one, a context line, an addition, a deletion and the "\ No newline" line
LineSet ==
    {h.line : h \in Headers}
    \cup {<<"@", "@", " ", "-", "1", " ", "+", "x", " ", "@", "@">>,
          <<" ", "x">>, <<"+", "x">>, <<"-", "x">>, <<"\\", "x">>}

Patches == {join(ls, "\n") : ls \in SeqsUpTo(LineSet, MaxLines)} \ {<<>>}

MainIdle ==
    /\ error = "none"
    /\ llm_model = <<>>
    /\ debug = FALSE
    /\ add_review_resolution = FALSE
    /\ requests_posted = 0
    /\ response_status = "none"
    /\ summary_content = <<>>
    /\ comments = <<>>
    /\ initial_comments = <<>>
    /\ next_id = 1
    /\ PublisherIdle

MainVars == <<error, llm_model, debug, add_review_resolution, requests_posted,
              response_status, summary_content, human_summary, technical_info_str,
              comments, initial_comments, next_id, log, history>>

InitDiff ==
    /\ pc = "help_llm"
    /\ diff_file \in {[filename |-> <<"a", ".", "p", "y">>, patch |-> p] : p \in Patches}
    /\ diff_output = <<>>
    /\ MainIdle
    /\ ModelIdle

\* main, line 300: help_llm(f) for a file with a patch
HelpLlm ==
    /\ pc = "help_llm"
    /\ diff_output' = help_llm(diff_file)
    /\ pc' = "help_llm_done"
    /\ UNCHANGED <<diff_file, pattern, model_result, MainVars>>

NextDiff == HelpLlm

SpecDiff == InitDiff /\ [][NextDiff]_vars

-----------------------------------------------------------------------------
(* get_model on its own *)

Literals == {SubSeq(supported_models[i], 2, Len(supported_models[i])) :
               i \in 1..Len(supported_models)}

\* the beginnings of the known model names, whole or cut short
Stems ==
    UNION {{SubSeq(l, 1, k) : k \in 0..Len(l)} : l \in Literals} \cup {<<"^", "o", "1">>}

ModelNames == {st \o su : st \in Stems, su \in SeqsUpTo({"o", "-", "1"}, MaxSuffix)}

InitModel ==
    /\ pc = "get_model"
    /\ pattern \in ModelNames
    /\ model_result = [raised |-> FALSE, value |-> <<>>, supported |-> <<>>]
    /\ MainIdle
    /\ DiffIdle

GetModel ==
    /\ pc = "get_model"
    /\ model_result' = get_model(pattern)
    /\ pc' = "get_model_done"
    /\ UNCHANGED <<pattern, diff_file, diff_output, MainVars>>

NextModel == GetModel

SpecModel == InitModel /\ [][NextModel]_vars

-----------------------------------------------------------------------------
(* What a text asks for, read off the text itself *)

\* the kinds of side effect of the publisher, in the order the claim gives
Rank(kind) ==
    CASE kind = "annotation" -> 1
      [] kind = "delete" -> 2
      [] kind = "create_comment" -> 3
      [] kind = "create_review" -> 4
      [] OTHER -> 0

Effects(l, kind) == {i \in 1..Len(l) : l[i].kind = kind}

HasMarker(text) == \E i \in 1..Len(text) : text[i] = marker

\* the text before the marker, or the whole text
HumanPart(text) ==
    IF HasMarker(text) THEN split_once(text, marker)[1] ELSE text

\* the trimmed text after the marker
TailOf(text) == strip(split_once(text, marker)[2])

\* the technical block of the text is there and parses as JSON
BlockParses(text) ==
    /\ HasMarker(text)
    /\ brace_span(TailOf(text)) # <<0, 0>>
    /\ ~json_loads(SubSeq(TailOf(text), brace_span(TailOf(text))[1],
                          brace_span(TailOf(text))[2])).raised

BlockOf(text) ==
    json_loads(SubSeq(TailOf(text), brace_span(TailOf(text))[1],
                      brace_span(TailOf(text))[2])).value

IsBotSummary(c) ==
    c.login = GITHUB_ACTIONS_BOT /\ \E i \in 1..Len(c.body) : c.body[i] = HEADER

BotSummaries(cs) == {i \in 1..Len(cs) : IsBotSummary(cs[i])}

PublisherEnded == pc = "done" \/ (pc = "fatal" /\ error = "AttributeError")

-----------------------------------------------------------------------------
(* C1 *)

\* C1: in every run of publish_annotations the side effects come in the
\* order annotation prints, comment deletions, comment creation, review
\* submission: no effect of a later kind precedes one of an earlier kind.
C1_SideEffectsOrdered ==
    \A i, j \in 1..Len(log) :
        (i < j /\ Rank(log[i].kind) > 0 /\ Rank(log[j].kind) > 0)
            => Rank(log[i].kind) <= Rank(log[j].kind)

C1_Witness ==
    /\ pc = "done"
    /\ Effects(log, "annotation") # {}
    /\ Effects(log, "delete") # {}
    /\ Effects(log, "create_comment") # {}
    /\ Effects(log, "create_review") # {}

-----------------------------------------------------------------------------
(* C2 *)

\* C2: when the technical block of the text is absent or malformed (no
\* marker, nothing after the marker, no brace span after it, or a brace span
\* that is not JSON) the run does not abort, prints no annotation, submits
\* no review, and still deletes the earlier summaries and posts the summary.
C2_MalformedBlockRecovered ==
    (PublisherEnded /\ ~BlockParses(summary_content))
        => /\ pc = "done"
           /\ Effects(log, "annotation") = {}
           /\ Effects(log, "create_review") = {}
           /\ BotSummaries(initial_comments) # {} => Effects(log, "delete") # {}
           /\ strip(HumanPart(summary_content)) # <<>>
                  => Effects(log, "create_comment") # {}

-----------------------------------------------------------------------------
(* C4 *)

\* the text asks for a review the code accepts
ReviewDue ==
    /\ BlockParses(summary_content)
    /\ add_review_resolution
    /\ BlockOf(summary_content).review.kind = "object"
    /\ BlockOf(summary_content).review.resolution
           \in {"APPROVE", "REQUEST_CHANGES", "COMMENT"}

\* the text carries a review whose resolution is none of the three
OtherResolution ==
    /\ BlockParses(summary_content)
    /\ BlockOf(summary_content).review.kind = "object"
    /\ BlockOf(summary_content).review.resolution
           \notin {"APPROVE", "REQUEST_CHANGES", "COMMENT"}

-----------------------------------------------------------------------------
(* C5 *)

\* C5: when the human summary is empty after trimming, with or without the
\* marker in the text, no issue comment is created; when it is not empty,
\* exactly one is created, made of the header, a blank line and the summary.
C5_CommentIffSummary ==
    pc = "done"
        => IF strip(HumanPart(summary_content)) = <<>>
           THEN Effects(log, "create_comment") = {}
           ELSE /\ Cardinality(Effects(log, "create_comment")) = 1
                /\ \A i \in Effects(log, "create_comment") :
                      LET body == log[i].data.body
                          text == strip(HumanPart(summary_content))
                      IN  /\ SubSeq(body, 1, 4) = <<HEADER, " ", "\n", "\n">>
                          /\ \E k \in 5..Len(body) :
                                SubSeq(body, k, k + Len(text) - 1) = text

-----------------------------------------------------------------------------
(* C9 *)

\* C9: a run sends at most one LLM request; an unsupported model name sends
\* none; with an unsupported name or an error status the run ends with a
\* fatal error and nothing is published: no print, no deletion, no comment,
\* no review.
C9_FatalBeforePublishing ==
    /\ requests_posted <= 1
    /\ (\A i \in 1..Len(supported_models) : ~re_match(supported_models[i], llm_model))
           => /\ requests_posted = 0
              /\ pc \in {"main", "fatal"}
              /\ log = <<>>
              /\ comments = initial_comments
    /\ response_status = "error"
           => /\ pc = "fatal"
              /\ requests_posted = 1
              /\ log = <<>>
              /\ comments = initial_comments
    /\ pc = "fatal" /\ error \in {"ValueError", "HTTPError"}
           => log = <<>> /\ comments = initial_comments

C9_Witness ==
    /\ pc = "fatal"
    /\ response_status = "error"
    /\ requests_posted = 1
    /\ BotSummaries(comments) # {}

-----------------------------------------------------------------------------
(* C3 *)

\* C3: after every completed run of the publisher the pull request holds at
\* most one comment of the bot with the header; after a second run with the
\* same text and a non-empty summary it holds exactly one, the one the
\* second run created, the second run having deleted the one the first run
\* created.
C3_OneBotSummary ==
    pc = "done"
        => /\ Cardinality(BotSummaries(comments)) <= 1
           /\ (Len(history) >= 1 /\ human_summary # <<>>)
                  => /\ Cardinality(BotSummaries(comments)) = 1
                     /\ \E i \in Effects(log, "create_comment") :
                           comments[Len(comments)].id = log[i].data.id
                     /\ \A k \in Effects(history[Len(history)], "create_comment") :
                           \E d \in Effects(log, "delete") :
                              log[d].data[1] = history[Len(history)][k].data.id

C3_Witness ==
    /\ pc = "done"
    /\ Len(history) = 1
    /\ human_summary # <<>>
    /\ Effects(history[1], "create_comment") # {}
    /\ Cardinality(Effects(history[1], "delete")) = 2
    /\ Effects(log, "delete") # {}

-----------------------------------------------------------------------------
(* C10 *)

RECURSIVE Without(_, _)
\* the comments of cs that are not summaries of the bot, in order
Without(cs, i) ==
    IF i > Len(cs) THEN <<>>
    ELSE (IF IsBotSummary(cs[i]) THEN <<>> ELSE <<cs[i]>>) \o Without(cs, i + 1)

\* C10: the deletion step deletes a comment the pull request held if and only
\* if its body contains the header and its author is the bot; every other
\* comment is left as it was; the step runs also when human_summary is
\* empty, and such a run leaves no summary of the bot.
C10_DeletesExactlyBotSummaries ==
    pc \in {"comment", "review", "done"}
        => /\ Len(comments) >= Len(Without(initial_comments, 1))
           /\ SubSeq(comments, 1, Len(Without(initial_comments, 1)))
                  = Without(initial_comments, 1)
           /\ Len(comments) <= Len(Without(initial_comments, 1)) + 1
           /\ {log[d].data[1] : d \in Effects(log, "delete")}
                  = {initial_comments[i].id : i \in BotSummaries(initial_comments)}
           /\ (pc = "done" /\ human_summary = <<>>) => BotSummaries(comments) = {}

C10_Witness ==
    /\ pc = "done"
    /\ human_summary = <<>>
    /\ Len(initial_comments) = 2
    /\ Len(comments) = 1
    /\ comments[1].login = OTHER_USER
    /\ Contains(comments[1].body, HEADER)

-----------------------------------------------------------------------------
(* C6 *)

\* the family patterns, in the order the table defines them
KnownPatterns ==
    << <<"^", "g", "p", "t", "-", "4">>,
       <<"^", "o", "1">>,
       <<"^", "c", "l", "a", "u", "d", "e", "-", "3">>,
       <<"^", "g", "e", "m", "i", "n", "i", "-", "2">> >>

\* name begins with the characters of the pattern after its anchor
IsPrefixMatch(p, name) ==
    /\ Len(name) >= Len(p) - 1
    /\ SubSeq(name, 1, Len(p) - 1) = SubSeq(p, 2, Len(p))

-----------------------------------------------------------------------------
(* C7 and C8 *)

PatchLines == splitlines(diff_file.patch, <<>>)

\* the lines of the result that stand for the lines of the patch: the
\* result opens with an empty line, the file name, "Patch:" and the fence
OutLine(i) == splitlines(diff_output, <<>>)[i + 4]

IsHeaderLine(l) == \E h \in Headers : h.line = l

StartOf(l) == (CHOOSE h \in Headers : h.line = l).start

IsNumbered(l) == Len(l) > 0 /\ l[1] \in {" ", "+"}

IsDeletion(l) == Len(l) > 0 /\ l[1] = "-"

\* the last hunk header before line i, 0 when there is none
HeaderBefore(i) ==
    LET hs == {j \in 1..(i - 1) : IsHeaderLine(PatchLines[j])}
    IN  IF hs = {} THEN 0 ELSE CHOOSE j \in hs : \A k \in hs : j >= k

\* the number of context and addition lines between the header at h and line i
NumberedBetween(h, i) ==
    Cardinality({m \in (h + 1)..(i - 1) : IsNumbered(PatchLines[m])})

RECURSIVE ReadBack(_)
\* the number a run of decimal digits spells
ReadBack(ds) ==
    IF ds = <<>> THEN 0
    ELSE 10 * ReadBack(SubSeq(ds, 1, Len(ds) - 1))
         + (CHOOSE v \in 0..9 : Digits[v + 1] = ds[Len(ds)])

\* out is line, prefixed with the number n right-aligned in at least four
\* columns, a colon and a space
IsNumberedAs(out, line, n) ==
    LET w == Len(out) - Len(line) - 2
        field == SubSeq(out, 1, w)
        blanks == {i \in 1..w : field[i] = " "}
    IN  /\ w >= 4
        /\ SubSeq(out, w + 1, w + 2) = <<":", " ">>
        /\ SubSeq(out, w + 3, Len(out)) = line
        /\ blanks = 1..Cardinality(blanks)
        /\ Cardinality(blanks) < w
        /\ Cardinality(blanks) > 0 => w = 4
        /\ \A i \in (Cardinality(blanks) + 1)..w : IsDigit(field[i])
        /\ ReadBack(SubSeq(field, Cardinality(blanks) + 1, w)) = n

Blank6 == <<" ", " ", " ", " ", " ", " ">>

Placeholder == <<" ", " ", " ", "?", " ", ":", " ">>

\* C7: after a hunk header with new-file start s, the k-th context or
\* addition line (k from 0) is prefixed with s + k, the count starting again
\* at each hunk header; a deletion line gets no number and does not advance
\* the count.
C7_NewFileLineNumbers ==
    pc = "help_llm_done"
        => /\ Len(splitlines(diff_output, <<>>)) = Len(PatchLines) + 5
           /\ \A i \in 1..Len(PatchLines) :
                 LET l == PatchLines[i]
                     h == HeaderBefore(i)
                 IN  /\ (IsNumbered(l) /\ h > 0)
                         => IsNumberedAs(OutLine(i), l,
                                         StartOf(PatchLines[h]) + NumberedBetween(h, i))
                     /\ IsDeletion(l) => OutLine(i) = Blank6 \o l
                     /\ IsHeaderLine(l) => OutLine(i) = l

C7_Witness ==
    /\ pc = "help_llm_done"
    /\ Len(PatchLines) = 4
    /\ IsHeaderLine(PatchLines[1]) /\ StartOf(PatchLines[1]) = 20
    /\ IsNumbered(PatchLines[2])
    /\ IsDeletion(PatchLines[3])
    /\ IsNumbered(PatchLines[4])
    /\ IsNumberedAs(OutLine(4), PatchLines[4], 21)

NoHunkHeader == \A i \in 1..Len(PatchLines) : ~IsHeaderLine(PatchLines[i])

\* C8 as stated: for a patch without a hunk header every line of the patch
\* is emitted with the placeholder marker.
C8_PlaceholderOnEveryLine ==
    (pc = "help_llm_done" /\ NoHunkHeader)
        => \A i \in 1..Len(PatchLines) : OutLine(i) = Placeholder \o PatchLines[i]

\* C8, amended: for a patch without a hunk header help_llm returns a
\* result in which every context and addition line carries the placeholder
\* marker, every deletion line the six-blank prefix, and every other line
\* is as it was.
C8_PlaceholderOnNumberedLines ==
    (pc = "help_llm_done" /\ NoHunkHeader)
        => /\ Len(splitlines(diff_output, <<>>)) = Len(PatchLines) + 5
           /\ \A i \in 1..Len(PatchLines) :
                 LET l == PatchLines[i]
                 IN  OutLine(i) = (IF IsNumbered(l) THEN Placeholder \o l
                                   ELSE IF IsDeletion(l) THEN Blank6 \o l
                                   ELSE l)

C8_Witness ==
    /\ pc = "help_llm_done"
    /\ NoHunkHeader
    /\ Len(PatchLines) = 3
    /\ IsNumbered(PatchLines[1])
    /\ IsDeletion(PatchLines[2])
    /\ OutLine(3) = Placeholder \o PatchLines[3]

=============================================================================
